---- MODULE Spec2Model ----
(***************************************************************************)
(* Idempotent job cache of the Taxaformer backends.                        *)
(*                                                                         *)
(* Two backend variants are modelled, one per deployment (Init chooses):   *)
(*   "cached" : backend/main_cached.py over db/supabase_db.py (Supabase)   *)
(*   "new"    : backend/main_new.py over psycopg2 (Postgres)               *)
(* The job table is an external, shared service: several submissions are   *)
(* in flight at once (the 'processing' branch of main_cached.py:144 is     *)
(* only observable then), so a handler is split at each call that leaves   *)
(* the process (a store operation, the compute call).  Steps that touch    *)
(* only request-local state are merged into the next such call.            *)
(***************************************************************************)
EXTENDS Integers, Sequences, FiniteSets, TLC

\* ---------------------------------------------------------------- bounds
MaxReq == 2          \* submissions in flight at once
MaxSubmit == 2       \* submissions in a run
MaxFaults == 1       \* store operations that fail in a run

Reqs == 1..MaxReq

\* ------------------------------------------------------------ vocabulary
NoJob == 0

\* uploaded file contents (two different files), and a file not read yet
Contents == {"ACGT", "TTGA"}
NoBytes == "unread"
Backends == {"cached", "new"}

\* filenames: name and extension as os.path.splitext splits them
Filenames == { [stem |-> "", ext |-> ""],
               [stem |-> "s1", ext |-> ".fasta"],
               [stem |-> "s1", ext |-> ".PDF"] }

\* the optional 'metadata' form field: absent, not JSON, a JSON object
\* (the fields with which a request gets past the parse of
\* main_cached.py:106-111; MetadataFields has one with which it does not)
Metadata == {"", "{bad", "{json}"}

\* result documents.  body: what the compute call produced ("empty" is {});
\* of/run: which content it analysed and in which compute call;
\* metadata: the "metadata" key the coordinator may add or extend.
NoDoc == [body |-> "null", of |-> NoBytes, run |-> 0, metadata |-> {}]
EmptyDoc == [body |-> "empty", of |-> NoBytes, run |-> 0, metadata |-> {}]
AnalysisDoc(b, n) == [body |-> "analysis", of |-> b, run |-> n, metadata |-> {"sampleName"}]

\* Python truthiness of a result value: None and {} are falsy
Truthy(doc) == doc # NoDoc /\ doc # EmptyDoc

\* responses
NoResp == [status |-> "none", cached |-> FALSE, job_id |-> NoJob, data |-> NoDoc,
           http |-> 0, message |-> ""]
Response(st, c, j, d) == [status |-> st, cached |-> c, job_id |-> j, data |-> d,
                          http |-> 200, message |-> ""]
\* {"status": "error", "message": "Analysis failed: " + str(e)}
ErrorBody(e) == [Response("error", FALSE, NoJob, NoDoc) EXCEPT !.message = e]
HTTPException(code) == [status |-> "http_error", cached |-> FALSE, job_id |-> NoJob,
                        data |-> NoDoc, http |-> code, message |-> ""]

VARIABLES
  backend,        \* which variant is deployed
  USE_DATABASE,   \* main_cached.py:22-34, the flag after start-up
  jobs,           \* the analysis_jobs table, in insertion (created_at) order
  faults,         \* number of store operations that failed
  nextId,         \* source of fresh job ids (uuid)
  submitted,      \* number of submissions received so far
  calls,          \* number of compute calls made so far
  temp,           \* requests whose staged temporary file exists
  pc,             \* per request: position in the handler
  file_bytes,     \* per request: the uploaded content
  filename,       \* per request: the uploaded file's name
  job_id,         \* per request: local job_id (NoJob is None)
  result_data,    \* per request: what the compute call returned
  dbfail,         \* per request: a store operation of it failed
  conflict,       \* per request: its insert hit the unique index
  concur,         \* per request: another submission of the same content overlapped it
  seen,           \* per request: what its lookup found for the fingerprint
  computed,       \* per request: it invoked the compute call
  call,           \* a single call that is followed on its own: what is called,
                  \* its arguments and, once it is done, its outcome
  last            \* the submission that returned most recently: what its caller
                  \* received, with its content and what its lookup found

vars == <<backend, USE_DATABASE, jobs, faults, nextId, submitted, calls, temp, pc,
          file_bytes, filename, job_id, result_data, dbfail, conflict, concur,
          seen, computed, call, last>>

\* ----------------------------------------------------------------- Hasher
\* hashlib.sha256(file_bytes).hexdigest(): a digest of the bytes, not the bytes.
\* In the job table a fingerprint is carried as the content it is the digest
\* of; the digests themselves are computed in SpecHash.
compute_file_hash(b) == <<"sha256", b>>

\* ------------------------------------------------ extension validation
\* str.lower() on the extensions used here
Lower(s) == CASE s = ".PDF" -> ".pdf"
              [] s = ".FASTA" -> ".fasta"
              [] s = ".Fa" -> ".fa"
              [] s = ".FNA" -> ".fna"
              [] s = ".FASTQ" -> ".fastq"
              [] s = ".Fq" -> ".fq"
              [] s = ".TXT" -> ".txt"
              [] OTHER -> s

splitext(fn) == fn.ext

allowed_extensions_cached == {".fasta", ".fa", ".fastq", ".fq", ".txt"}
allowed_extensions_new == {".fasta", ".fa", ".fna", ".fastq", ".fq"}

\* the validation block without its extension check
Validate_no_extension_check(fn, allowed) ==
  IF fn.stem = "" /\ fn.ext = "" THEN 400 ELSE 0

\* outcome of the validation block: 0 = accepted, else the HTTP status raised
Validate(fn, allowed) ==
  IF fn.stem = "" /\ fn.ext = "" THEN 400
  ELSE IF Lower(splitext(fn)) \notin allowed THEN 400
  ELSE 0

\* ------------------------------------------------------------- the table
\* rows of the table with a given file_hash, as positions
WithHash(tbl, h) == {i \in 1..Len(tbl) : tbl[i].file_hash = h}

\* the unique index on analysis_jobs.file_hash
UniqueViolation(tbl, h) == WithHash(tbl, h) # {}

\* a store operation may fail (supabase_db.py:62, main_new.py:78, 105)
MayFault == faults < MaxFaults

NoRow == [job_id |-> NoJob, file_hash |-> <<"sha256", NoBytes>>,
          filename |-> [stem |-> "", ext |-> ""],
          status |-> "none", result |-> NoDoc, completed_at |-> FALSE]

\* ------------------------------------------------------ TaxaformerDB
\* a lookup that never finds a job
get_job_by_hash_never(tbl, h) == {NoRow}

\* a lookup that takes the first job whatever its hash
get_job_by_hash_no_eq(tbl, h) ==
  IF tbl = <<>> THEN {NoRow} ELSE {Head(tbl)}

\* select('*').eq('file_hash', h).limit(1): some row with that hash, or None
get_job_by_hash(tbl, h) ==
  IF WithHash(tbl, h) = {} THEN {NoRow} ELSE {tbl[i] : i \in WithHash(tbl, h)}

\* the record create_job inserts
create_job_data(id, h, fn, status, result) ==
  [job_id |-> id, file_hash |-> h, filename |-> fn, status |-> status,
   result |-> IF Truthy(result) THEN result ELSE NoDoc,
   completed_at |-> Truthy(result)]

\* an insert that stores the job as complete whatever status is given
create_job_status_ignored(tbl, id, h, fn, status, result) ==
  Append(tbl, create_job_data(id, h, fn, "complete", result))

\* insert(data).execute() on analysis_jobs
create_job(tbl, id, h, fn, status, result) ==
  Append(tbl, create_job_data(id, h, fn, status, result))

\* delete().eq('job_id', j).execute() in the place of the update
delete_eq_job_id(tbl, j, update_data) ==
  SelectSeq(tbl, LAMBDA row : row.job_id # j)

\* update(update_data).eq('job_id', j).execute()
update_eq_job_id(tbl, j, update_data) ==
  [i \in 1..Len(tbl) |->
     IF tbl[i].job_id = j
     THEN [f \in DOMAIN tbl[i] |->
             IF f \in DOMAIN update_data THEN update_data[f] ELSE tbl[i][f]]
     ELSE tbl[i]]

\* ------------------------------------------------ request bookkeeping
NoName == [stem |-> "", ext |-> ""]

\* the worker that takes the next submission: the first one that is free
\* (the workers of the server are interchangeable)
Free(r) == pc[r] = "idle" /\ \A q \in Reqs : q < r => pc[q] # "idle"

InFlight(b) == {q \in Reqs : pc[q] # "idle" /\ file_bytes[q] = b}

\* concur once submission r of content b is in: r and the submissions of b
\* in flight have overlapped
Overlap(r, b) ==
  [q \in Reqs |-> IF q = r THEN InFlight(b) # {}
                  ELSE IF q \in InFlight(b) THEN TRUE ELSE concur[q]]

\* what is kept of a submission once its handler has returned: its upload,
\* what its lookup found, whether it overlapped another submission of the
\* same content, whether its staged file still exists, and the response
Returned(b, fn, sn, cc, tmp, response) ==
  [bytes |-> b, filename |-> fn, seen |-> sn, concur |-> cc, temp |-> tmp,
   resp |-> response]

\* json.loads(metadata) under 'if metadata:' and the JSONDecodeError handler
parsed_metadata(md) == IF md = "{json}" THEN "user" ELSE "None"

\* main_cached.py:183-191, the keys of result_data["metadata"] afterwards
AddMetadata(doc, parsed) ==
  IF doc.metadata # {}
  THEN [doc EXCEPT !.metadata = @ \cup {"processingTime"}
                                  \cup (IF parsed # "None" THEN {"userMetadata"} ELSE {})]
  ELSE IF parsed # "None"
  THEN [doc EXCEPT !.metadata = {"processingTime", "userMetadata"}]
  ELSE doc

\* the table outlives the server: at start-up it is empty, or holds the failed
\* job a submission of an earlier run left behind (main_cached.py:233-240)
StoredJobs(variant) ==
  IF variant = "cached"
  THEN {<<>>, <<[create_job_data(1, compute_file_hash("ACGT"),
                                 [stem |-> "s1", ext |-> ".fasta"], "failed", NoDoc)
                   EXCEPT !.completed_at = TRUE]>>}
  ELSE {<<>>}

\* no call is followed on its own
NoCall == [name |-> "none", done |-> FALSE]

\* the server and the table at start-up
StartWith(tables) ==
  /\ backend \in Backends
  /\ USE_DATABASE \in BOOLEAN
  /\ (backend = "new" => USE_DATABASE)
  /\ jobs \in tables
  /\ faults = 0
  /\ nextId = Len(jobs) + 1
  /\ submitted = 0
  /\ calls = 0
  /\ temp = {}
  /\ pc = [r \in Reqs |-> "idle"]
  /\ file_bytes = [r \in Reqs |-> NoBytes]
  /\ filename = [r \in Reqs |-> NoName]
  /\ job_id = [r \in Reqs |-> NoJob]
  /\ result_data = [r \in Reqs |-> NoDoc]
  /\ dbfail = [r \in Reqs |-> FALSE]
  /\ conflict = [r \in Reqs |-> FALSE]
  /\ concur = [r \in Reqs |-> FALSE]
  /\ seen = [r \in Reqs |-> "none"]
  /\ computed = [r \in Reqs |-> FALSE]
  /\ last = Returned(NoBytes, NoName, "none", FALSE, FALSE, NoResp)

Start == StartWith(StoredJobs(backend))

Init == Start /\ call = NoCall

\* a store operation raised
StoreFailure == faults' = faults + 1

\* a store failure after the compute call that ends the request with an error
except_db_error_reraise(fault, response) ==
  IF fault THEN ErrorBody("db_error")
  ELSE response

\* 'except Exception as db_error: print(...)' of main_cached.py:217-219 and
\* of save_result_to_db: the failure is logged and the handler goes on to
\* answer with what it has
except_db_error(fault, response) == response

\* the handler of request r is left with `response`: the caller has it, the
\* locals of the handler are gone and the worker is free again; `leaked`
\* says that a staged file exists and is not removed on the way out
handler_exit(r, response, leaked) ==
  /\ last' = Returned(file_bytes[r], filename[r], seen[r], concur[r],
                      leaked, response)
  /\ pc' = [pc EXCEPT ![r] = "idle"]
  /\ file_bytes' = [file_bytes EXCEPT ![r] = NoBytes]
  /\ filename' = [filename EXCEPT ![r] = NoName]
  /\ job_id' = [job_id EXCEPT ![r] = NoJob]
  /\ result_data' = [result_data EXCEPT ![r] = NoDoc]
  /\ dbfail' = [dbfail EXCEPT ![r] = FALSE]
  /\ conflict' = [conflict EXCEPT ![r] = FALSE]
  /\ concur' = [concur EXCEPT ![r] = FALSE]
  /\ seen' = [seen EXCEPT ![r] = "none"]
  /\ computed' = [computed EXCEPT ![r] = FALSE]
  /\ temp' = temp \ {r}

\* ... through the 'finally' block that removes the staged file
\* (main_cached.py:258-264, main_new.py:196-199)
handler_returned(r, response) == handler_exit(r, response, FALSE)

\* ------------------------------------- main_cached.py analyze_endpoint
\* failure bookkeeping whose own exception replaces the pipeline's
except_Exception_raise(fault, pipeline_error) ==
  IF fault THEN "db_error" ELSE pipeline_error

\* lines 234-243: 'except Exception: pass' around the update that marks the
\* job failed, then 'raise pipeline_error': the exception that goes on
except_Exception_pass(fault, pipeline_error) == pipeline_error

\* variants of the branch selection with one branch lost
cache_branch_no_hit(cached_job) ==
  IF cached_job # NoRow /\ cached_job.status = "processing" THEN "processing"
  ELSE "miss"

cache_branch_no_processing(cached_job) ==
  IF cached_job # NoRow /\ cached_job.status = "complete" THEN "hit"
  ELSE "miss"

cache_branch_failed_returned(cached_job) ==
  IF cached_job # NoRow /\ cached_job.status = "complete" THEN "hit"
  ELSE IF cached_job # NoRow /\ cached_job.status \in {"processing", "failed"}
  THEN "processing"
  ELSE "miss"

\* lines 136-152: which branch the looked-up job selects
cache_branch(cached_job) ==
  IF cached_job # NoRow /\ cached_job.status = "complete" THEN "hit"
  ELSE IF cached_job # NoRow /\ cached_job.status = "processing" THEN "processing"
  ELSE "miss"

\* lines 104-152: metadata, validation, read, hash, cache lookup and branch
analyze_lookup(r) ==
  /\ backend = "cached"
  /\ Free(r)
  /\ submitted < MaxSubmit
  /\ submitted' = submitted + 1
  /\ \E b \in Contents, fn \in Filenames, fault \in BOOLEAN :
       LET file_hash == compute_file_hash(b)
           rejected == Validate(fn, allowed_extensions_cached) # 0
       IN
       /\ fault => (~rejected /\ USE_DATABASE /\ MayFault)
       /\ IF rejected
          THEN /\ last' = Returned(NoBytes, fn, "none", FALSE, FALSE, HTTPException(400))
               /\ UNCHANGED <<pc, file_bytes, filename, concur, dbfail, faults, seen>>
          ELSE \E cached_job \in (IF USE_DATABASE /\ ~fault
                                  THEN get_job_by_hash(jobs, file_hash)
                                  ELSE {NoRow}) :
                 LET found == IF ~USE_DATABASE THEN "disabled"
                              ELSE IF fault THEN "error"
                              ELSE IF cached_job = NoRow THEN "absent"
                              ELSE cached_job.status
                 IN
                 /\ IF fault THEN StoreFailure ELSE UNCHANGED faults
                 /\ CASE cache_branch(cached_job) = "hit" ->
                           /\ last' = Returned(b, fn, found, InFlight(b) # {}, FALSE,
                                         Response("success", TRUE, cached_job.job_id,
                                                  cached_job.result))
                           /\ concur' = [Overlap(r, b) EXCEPT ![r] = FALSE]
                           /\ UNCHANGED <<pc, file_bytes, filename, dbfail, seen>>
                      [] cache_branch(cached_job) = "processing" ->
                           /\ last' = Returned(b, fn, found, InFlight(b) # {}, FALSE,
                                         Response("processing", FALSE,
                                                  cached_job.job_id, NoDoc))
                           /\ concur' = [Overlap(r, b) EXCEPT ![r] = FALSE]
                           /\ UNCHANGED <<pc, file_bytes, filename, dbfail, seen>>
                      [] OTHER ->
                           /\ pc' = [pc EXCEPT ![r] = "create"]
                           /\ file_bytes' = [file_bytes EXCEPT ![r] = b]
                           /\ filename' = [filename EXCEPT ![r] = fn]
                           /\ seen' = [seen EXCEPT ![r] = found]
                           /\ concur' = Overlap(r, b)
                           /\ dbfail' = [dbfail EXCEPT ![r] = fault]
                           /\ UNCHANGED last
  /\ UNCHANGED <<call, backend, USE_DATABASE, jobs, nextId, calls, temp, job_id,
                 result_data, conflict, computed>>

\* lines 154-166: create the processing job record
analyze_create(r) ==
  /\ backend = "cached"
  /\ pc[r] = "create"
  /\ pc' = [pc EXCEPT ![r] = "process"]
  /\ IF ~USE_DATABASE
     THEN UNCHANGED <<jobs, nextId, job_id, dbfail, faults, conflict>>
     ELSE \E fault \in BOOLEAN :
            LET file_hash == compute_file_hash(file_bytes[r]) IN
            /\ fault => MayFault
            /\ IF fault
               THEN /\ StoreFailure
                    /\ dbfail' = [dbfail EXCEPT ![r] = TRUE]
                    /\ UNCHANGED <<jobs, nextId, job_id, conflict>>
               ELSE IF UniqueViolation(jobs, file_hash)
               THEN /\ conflict' = [conflict EXCEPT ![r] = TRUE]
                    /\ UNCHANGED <<jobs, nextId, job_id, dbfail, faults>>
               ELSE /\ jobs' = create_job(jobs, nextId, file_hash, filename[r],
                                          "processing", NoDoc)
                    /\ job_id' = [job_id EXCEPT ![r] = nextId]
                    /\ nextId' = nextId + 1
                    /\ UNCHANGED <<dbfail, faults, conflict>>
  /\ UNCHANGED <<call, backend, USE_DATABASE, submitted, calls, temp, file_bytes, filename,
                 result_data, concur, seen, computed, last>>

\* KaggleWorker.process_file: what the n-th call, on content b, can return
\* (the fixture, or whatever 'data' the remote worker answered)
process_file(b, n) == {AnalysisDoc(b, n), EmptyDoc}

\* TaxonomyPipeline.process_file, the compute call of main_cached.py
pipeline_process_file(b, n) == process_file(b, n)

\* lines 168-193: stage the upload, run the pipeline, add processing time
\* and user metadata to the result
analyze_process(r) ==
  /\ backend = "cached"
  /\ pc[r] = "process"
  /\ \E outcome \in {"open_fails", "raises", "returns"}, md \in Metadata :
       LET b == file_bytes[r] IN
       CASE outcome = "open_fails" ->
              /\ md = ""
              /\ handler_returned(r, ErrorBody("open_error"))
              /\ UNCHANGED calls
         [] outcome = "raises" ->
              /\ md = ""
              /\ temp' = temp \cup {r}
              /\ calls' = calls + 1
              /\ computed' = [computed EXCEPT ![r] = TRUE]
              /\ pc' = [pc EXCEPT ![r] = "fail"]
              /\ UNCHANGED <<file_bytes, filename, job_id, result_data, dbfail,
                             conflict, concur, seen, last>>
         [] outcome = "returns" ->
              /\ temp' = temp \cup {r}
              /\ calls' = calls + 1
              /\ computed' = [computed EXCEPT ![r] = TRUE]
              /\ \E doc \in pipeline_process_file(b, calls + 1) :
                   result_data' = [result_data EXCEPT ![r] =
                                     AddMetadata(doc, parsed_metadata(md))]
              /\ pc' = [pc EXCEPT ![r] = "update"]
              /\ UNCHANGED <<file_bytes, filename, job_id, dbfail, conflict,
                             concur, seen, last>>
  /\ UNCHANGED <<call, backend, USE_DATABASE, jobs, faults, nextId, submitted>>

\* lines 195-229 and 258-264: store the result, answer, remove the temp file
analyze_update(r) ==
  /\ backend = "cached"
  /\ pc[r] = "update"
  /\ IF USE_DATABASE /\ job_id[r] # NoJob
     THEN \E fault \in BOOLEAN :
            /\ fault => MayFault
            /\ IF fault
               THEN /\ StoreFailure
                    /\ UNCHANGED jobs
               ELSE /\ jobs' = update_eq_job_id(jobs, job_id[r],
                                  [status |-> "complete", result |-> result_data[r],
                                   completed_at |-> TRUE])
                    /\ UNCHANGED faults
     ELSE UNCHANGED <<jobs, faults>>
  /\ handler_returned(r, except_db_error(faults' # faults,
                            Response("success", FALSE, job_id[r], result_data[r])))
  /\ UNCHANGED <<call, backend, USE_DATABASE, nextId, submitted, calls>>

\* lines 231-264: mark the job failed, report the error, remove the temp file
analyze_fail(r) ==
  /\ backend = "cached"
  /\ pc[r] = "fail"
  /\ IF USE_DATABASE /\ job_id[r] # NoJob
     THEN \E fault \in BOOLEAN :
            /\ fault => MayFault
            /\ IF fault
               THEN /\ StoreFailure
                    /\ UNCHANGED jobs
               ELSE /\ jobs' = update_eq_job_id(jobs, job_id[r],
                                  [status |-> "failed", completed_at |-> TRUE])
                    /\ UNCHANGED faults
     ELSE UNCHANGED <<jobs, faults>>
  /\ handler_returned(r, ErrorBody(except_Exception_pass(faults' # faults,
                                                         "pipeline_error")))
  /\ UNCHANGED <<call, backend, USE_DATABASE, nextId, submitted, calls>>

\* ------------------------------------------------------- main_new.py
\* json.dumps(result_json) into the result_json column, and the value the
\* cursor hands back for that column
json_dumps(doc) == [json |-> doc]
result_json_column(v) == v.json

\* check_existing_result: SELECT ... WHERE file_hash = h AND status = 'completed'
check_existing_result(tbl, h) ==
  LET found == {i \in WithHash(tbl, h) : tbl[i].status = "completed"} IN
  IF found = {} THEN {NoRow} ELSE {tbl[i] : i \in found}

\* the INSERT of save_result_to_db without its ON CONFLICT clause
save_result_insert_only(tbl, id, h, fn, result_json) ==
  Append(tbl, [job_id |-> id, file_hash |-> h, filename |-> fn,
               status |-> "completed", result |-> [json |-> result_json],
               completed_at |-> FALSE])

\* save_result_to_db: INSERT ... ON CONFLICT (file_hash) DO UPDATE SET
\* result_json, status, updated_at
save_result_to_db(tbl, id, h, fn, result_json) ==
  IF WithHash(tbl, h) = {}
  THEN Append(tbl, [job_id |-> id, file_hash |-> h, filename |-> fn,
                    status |-> "completed", result |-> json_dumps(result_json),
                    completed_at |-> FALSE])
  ELSE [i \in 1..Len(tbl) |->
          IF tbl[i].file_hash = h
          THEN [tbl[i] EXCEPT !.result = json_dumps(result_json),
                              !.status = "completed"]
          ELSE tbl[i]]

\* lines 135-172: validation, read, hash, lookup of a completed job, new job id
analyse_lookup(r) ==
  /\ backend = "new"
  /\ Free(r)
  /\ submitted < MaxSubmit
  /\ submitted' = submitted + 1
  /\ \E b \in Contents, fn \in Filenames, fault \in BOOLEAN :
       LET file_hash == compute_file_hash(b)
           rejected == Validate(fn, allowed_extensions_new) # 0
       IN
       /\ fault => (~rejected /\ MayFault)
       /\ IF rejected
          THEN /\ last' = Returned(NoBytes, fn, "none", FALSE, FALSE, HTTPException(400))
               /\ UNCHANGED <<pc, file_bytes, filename, concur, dbfail, faults,
                              job_id, nextId, seen>>
          ELSE \E existing \in (IF fault THEN {NoRow}
                                ELSE check_existing_result(jobs, file_hash)) :
                 LET found == IF fault THEN "error"
                              ELSE IF existing = NoRow THEN "absent"
                              ELSE existing.status
                 IN
                 /\ IF fault THEN StoreFailure ELSE UNCHANGED faults
                 /\ IF existing # NoRow
                    THEN /\ last' = Returned(b, fn, found, InFlight(b) # {}, FALSE,
                                       Response("success", TRUE, existing.job_id,
                                                result_json_column(existing.result)))
                         /\ concur' = [Overlap(r, b) EXCEPT ![r] = FALSE]
                         /\ UNCHANGED <<pc, file_bytes, filename, dbfail, job_id,
                                        nextId, seen>>
                    ELSE /\ job_id' = [job_id EXCEPT ![r] = nextId]
                         /\ nextId' = nextId + 1
                         /\ pc' = [pc EXCEPT ![r] = "process"]
                         /\ file_bytes' = [file_bytes EXCEPT ![r] = b]
                         /\ filename' = [filename EXCEPT ![r] = fn]
                         /\ seen' = [seen EXCEPT ![r] = found]
                         /\ concur' = Overlap(r, b)
                         /\ dbfail' = [dbfail EXCEPT ![r] = fault]
                         /\ UNCHANGED last
  /\ UNCHANGED <<call, backend, USE_DATABASE, jobs, calls, temp, result_data, conflict,
                 computed>>

\* lines 174-183 and 196-207: stage the upload and call the Kaggle worker
analyse_process(r) ==
  /\ backend = "new"
  /\ pc[r] = "process"
  /\ \E outcome \in {"tempfile_fails", "write_fails", "raises", "returns"} :
       LET b == file_bytes[r] IN
       CASE outcome = "tempfile_fails" ->
              /\ handler_returned(r, HTTPException(500))
              /\ UNCHANGED calls
         [] outcome = "write_fails" ->
              \* NamedTemporaryFile(delete=False) made the file, write() raised:
              \* the try/finally of line 179 is not entered
              /\ handler_exit(r, HTTPException(500), TRUE)
              /\ UNCHANGED calls
         [] outcome = "raises" ->
              /\ calls' = calls + 1
              /\ handler_returned(r, HTTPException(500))
         [] outcome = "returns" ->
              /\ temp' = temp \cup {r}
              /\ calls' = calls + 1
              /\ computed' = [computed EXCEPT ![r] = TRUE]
              /\ \E doc \in process_file(b, calls + 1) :
                   result_data' = [result_data EXCEPT ![r] = doc]
              /\ pc' = [pc EXCEPT ![r] = "save"]
              /\ UNCHANGED <<file_bytes, filename, job_id, dbfail, conflict,
                             concur, seen, last>>
  /\ UNCHANGED <<call, backend, USE_DATABASE, jobs, faults, nextId, submitted>>

\* lines 184-199: save the result, answer, remove the temp file
analyse_save(r) ==
  /\ backend = "new"
  /\ pc[r] = "save"
  /\ \E fault \in BOOLEAN :
       /\ fault => MayFault
       /\ IF fault
          THEN /\ StoreFailure
               /\ UNCHANGED jobs
          ELSE /\ jobs' = save_result_to_db(jobs, job_id[r],
                             compute_file_hash(file_bytes[r]), filename[r],
                             result_data[r])
               /\ UNCHANGED faults
  /\ handler_returned(r, except_db_error(faults' # faults,
                            Response("success", FALSE, job_id[r], result_data[r])))
  /\ UNCHANGED <<call, backend, USE_DATABASE, nextId, submitted, calls>>

Next ==
  \/ \E r \in Reqs : analyze_lookup(r)
  \/ \E r \in Reqs : analyze_create(r)
  \/ \E r \in Reqs : analyze_process(r)
  \/ \E r \in Reqs : analyze_update(r)
  \/ \E r \in Reqs : analyze_fail(r)
  \/ \E r \in Reqs : analyse_lookup(r)
  \/ \E r \in Reqs : analyse_process(r)
  \/ \E r \in Reqs : analyse_save(r)

Spec == Init /\ [][Next]_vars

\* ---------------------------- main_cached.py job and visualization reads
\* the 'limit' query parameter of GET /jobs: the default and a small one
DefaultLimit == 50
Limits == {1, DefaultLimit}

\* select('job_id, filename, status, created_at, completed_at') of one row;
\* the table is kept in the order of creation, so a row's position is its
\* created_at
JobSummary(tbl, i) ==
  [job_id |-> tbl[i].job_id, filename |-> tbl[i].filename,
   status |-> tbl[i].status, created_at |-> i,
   completed_at |-> tbl[i].completed_at]

\* a listing that ignores the limit
get_all_jobs_no_limit(tbl, limit, fault) ==
  IF fault THEN <<>>
  ELSE [k \in 1..Len(tbl) |-> JobSummary(tbl, Len(tbl) + 1 - k)]

\* TaxaformerDB.get_all_jobs: order('created_at', desc=True).limit(limit);
\* [] on an exception
get_all_jobs(tbl, limit, fault) ==
  IF fault THEN <<>>
  ELSE [k \in 1..(IF limit < Len(tbl) THEN limit ELSE Len(tbl)) |->
          JobSummary(tbl, Len(tbl) + 1 - k)]

\* TaxaformerDB.get_job_by_id: the job, or None; None on an exception
get_job_by_id(tbl, j, fault) ==
  IF fault \/ ~\E i \in 1..Len(tbl) : tbl[i].job_id = j THEN NoRow
  ELSE tbl[CHOOSE i \in 1..Len(tbl) : tbl[i].job_id = j]

\* the rows of table 'sequences' of job j: written by _store_sequences
\* right after the completion update when the result has sequences
sequences_eq_job_id(tbl, j) ==
  {i \in 1..Len(tbl) : /\ tbl[i].job_id = j
                       /\ tbl[i].status = "complete"
                       /\ tbl[i].result.body = "analysis"}

\* TaxaformerDB.get_taxonomic_composition: 'total' of the composition;
\* {"composition": [], "total": 0} without sequences and on an exception
get_taxonomic_composition(tbl, j, fault) ==
  IF fault THEN 0 ELSE Cardinality(sequences_eq_job_id(tbl, j))

\* the answer of a read-only endpoint: the HTTP status and the number of
\* items in the body
Read(endpoint, j, fault, code, n) ==
  [name |-> endpoint, done |-> TRUE, job_id |-> j, fault |-> fault,
   http |-> code, items |-> n]

\* the answer of GET /jobs: {"jobs": rows}
ReadList(limit, fault, code, rows) ==
  [name |-> "list_jobs", done |-> TRUE, job_id |-> NoJob, fault |-> fault,
   http |-> code, items |-> Len(rows), limit |-> limit, rows |-> rows]

ReadFrame ==
  UNCHANGED <<backend, USE_DATABASE, jobs, nextId, submitted, calls, temp, pc,
              file_bytes, filename, job_id, result_data, dbfail, conflict,
              concur, seen, computed, last>>

\* GET /jobs without the test of USE_DATABASE and db
list_jobs_no_flag_check ==
  /\ backend = "cached"
  /\ \E limit \in Limits, fault \in BOOLEAN :
       /\ fault => (USE_DATABASE /\ MayFault)
       /\ IF fault THEN StoreFailure ELSE UNCHANGED faults
       /\ call' = ReadList(limit, fault, 200, get_all_jobs(jobs, limit, fault))
  /\ ReadFrame

\* GET /jobs
list_jobs ==
  /\ backend = "cached"
  /\ \E limit \in Limits, fault \in BOOLEAN :
       /\ fault => (USE_DATABASE /\ MayFault)
       /\ IF fault THEN StoreFailure ELSE UNCHANGED faults
       /\ call' = IF ~USE_DATABASE THEN ReadList(limit, fault, 503, <<>>)
                  ELSE ReadList(limit, fault, 200,
                                get_all_jobs(jobs, limit, fault))
  /\ ReadFrame

\* GET /jobs/{job_id}
get_job ==
  /\ backend = "cached"
  /\ \E j \in 1..nextId, fault \in BOOLEAN :
       /\ fault => (USE_DATABASE /\ MayFault)
       /\ IF fault THEN StoreFailure ELSE UNCHANGED faults
       /\ call' = IF ~USE_DATABASE THEN Read("get_job", j, fault, 503, 0)
                  ELSE IF get_job_by_id(jobs, j, fault) = NoRow
                  THEN Read("get_job", j, fault, 404, 0)
                  ELSE Read("get_job", j, fault, 200, 1)
  /\ ReadFrame

\* GET /visualizations/composition/{job_id}
get_composition ==
  /\ backend = "cached"
  /\ \E j \in 1..nextId, fault \in BOOLEAN :
       /\ fault => (USE_DATABASE /\ MayFault)
       /\ IF fault THEN StoreFailure ELSE UNCHANGED faults
       /\ call' = IF ~USE_DATABASE THEN Read("get_composition", j, fault, 503, 0)
                  ELSE Read("get_composition", j, fault, 200,
                            get_taxonomic_composition(jobs, j, fault))
  /\ ReadFrame

\* ---------------------------------------------- kaggle_worker.py
\* what the network and the remote server make of one request: the request
\* times out, the connection fails, or a response with a status code and a
\* body comes back.  A body is a JSON object (with or without a 'data'
\* key; detail and message are "" when the key is absent) or is not JSON.
ResponseData == [doc |-> "analysis"]

Bodies ==
  { [json |-> TRUE, status |-> st, has_data |-> hd, data |-> ResponseData,
     detail |-> dt, message |-> m] :
      st \in {"success", "error"}, hd \in BOOLEAN,
      dt \in {"", "busy"}, m \in {"", "bad file"} }
  \cup { [json |-> FALSE, status |-> "", has_data |-> FALSE,
          data |-> ResponseData, detail |-> "", message |-> ""] }

StatusCodes == {200, 201, 404, 500}

NoBody == [json |-> FALSE, status |-> "", has_data |-> FALSE,
           data |-> ResponseData, detail |-> "", message |-> ""]

Network ==
  { [kind |-> k, status_code |-> 0, body |-> NoBody] :
      k \in {"ReadTimeout", "ConnectTimeout", "ConnectionError"} }
  \cup { [kind |-> "response", status_code |-> c, body |-> b] :
           c \in StatusCodes, b \in Bodies }

\* requests.exceptions.Timeout and its subclasses
Timeout == {"ReadTimeout", "ConnectTimeout"}

WorkerFilenames == {"s1.fasta", "s2.fa"}

\* how a call ends: with a value, or with an exception of a class whose
\* message is a fixed text, followed by a status code and by text of the
\* server where the code appends them
Return(value) == [kind |-> "returned", value |-> value]
Raise(type, text, code, extra) ==
  [kind |-> "raised", type |-> type, text |-> text, code |-> code, extra |-> extra]

\* _generate_mock_result: the fixture, with the file name as sample name
generate_mock_result(fn) ==
  [doc |-> "mock", sampleName |-> fn]

\* a timeout reported with the message of a failed connection
except_Timeout_as_ConnectionError ==
  Raise("Exception", "Cannot connect to Kaggle server", 0, "")

\* 'except requests.exceptions.Timeout' (lines 81-83)
except_Timeout ==
  Raise("Exception", "Analysis timeout", 0, "")

\* 'except requests.exceptions.ConnectionError' (lines 85-87)
except_ConnectionError ==
  Raise("Exception", "Cannot connect to Kaggle server", 0, "")

\* KaggleWorker.process_file on a worker with that ngrok_url
KaggleWorker_process_file(ngrok_url, original_filename, net) ==
  IF ngrok_url = "" THEN Return(generate_mock_result(original_filename))
  ELSE IF net.kind \in Timeout THEN except_Timeout
  ELSE IF net.kind = "ConnectionError" THEN except_ConnectionError
  ELSE IF net.status_code # 200
  THEN Raise("Exception", "Kaggle server error", net.status_code,
             IF net.body.json THEN net.body.detail ELSE "")
  ELSE IF ~net.body.json
  THEN Raise("JSONDecodeError", "Expecting value", 0, "")
  ELSE IF net.body.status = "success"
  THEN Return(IF net.body.has_data THEN net.body.data ELSE net.body)
  ELSE Raise("Exception", "Kaggle server returned error", 0,
             IF net.body.message # "" THEN net.body.message ELSE "Unknown error")

\* KaggleWorker.check_server_health without its try/except
check_server_health_no_except(ngrok_url, net) ==
  IF ngrok_url = "" THEN Return([healthy |-> FALSE])
  ELSE IF net.kind = "response" THEN Return([healthy |-> net.status_code = 200])
  ELSE Raise(net.kind, "", 0, "")

\* KaggleWorker.check_server_health
check_server_health(ngrok_url, net) ==
  IF ngrok_url = "" THEN Return([healthy |-> FALSE])
  ELSE IF net.kind = "response" THEN Return([healthy |-> net.status_code = 200])
  ELSE Return([healthy |-> FALSE])

\* KaggleWorker.get_server_info
get_server_info(ngrok_url, net) ==
  IF ngrok_url = "" THEN Return([status |-> "not_configured"])
  ELSE IF net.kind # "response"
  THEN Return([status |-> "error", message |-> net.kind])
  ELSE IF net.status_code # 200
  THEN Return([status |-> "error", code |-> net.status_code])
  ELSE IF ~net.body.json
  THEN Return([status |-> "error", message |-> "Expecting value"])
  ELSE Return(net.body)

\* str(e) of an exception of the worker: its message, not its class
str(e) == [text |-> e.text, code |-> e.code, extra |-> e.extra]

\* main_new.py:203-207: what the caller of /analyse gets for an exception
analyse_except(e) == [http |-> 500, detail |-> str(e)]

\* KaggleWorker.__init__: the URL (or "") and the timeout of the environment
KaggleWorkers ==
  { [name |-> "KaggleWorker", done |-> FALSE, ngrok_url |-> u, timeout |-> t] :
      u \in {"", "https://x.ngrok-free.dev"}, t \in {60, 300} }

\* a finished call of the worker: arguments, the network's behaviour, the
\* number of requests sent and the outcome
WorkerCall(op, fn, net, out) ==
  [name |-> op, done |-> TRUE, ngrok_url |-> call.ngrok_url,
   timeout |-> call.timeout, filename |-> fn, net |-> net,
   requests |-> IF call.ngrok_url = "" THEN 0 ELSE 1, out |-> out]

WorkerOps == {"KaggleWorker", "process_file", "check_server_health", "get_server_info"}

worker_process_file ==
  /\ call.name \in WorkerOps
  /\ \E fn \in WorkerFilenames, net \in Network :
       call' = WorkerCall("process_file", fn, net,
                          KaggleWorker_process_file(call.ngrok_url, fn, net))
  /\ ReadFrame
  /\ UNCHANGED faults

worker_check_server_health ==
  /\ call.name \in WorkerOps
  /\ \E net \in Network :
       call' = WorkerCall("check_server_health", "", net,
                          check_server_health(call.ngrok_url, net))
  /\ ReadFrame
  /\ UNCHANGED faults

worker_get_server_info ==
  /\ call.name \in WorkerOps
  /\ \E net \in Network :
       call' = WorkerCall("get_server_info", "", net,
                          get_server_info(call.ngrok_url, net))
  /\ ReadFrame
  /\ UNCHANGED faults

NextWorker ==
  \/ worker_process_file
  \/ worker_check_server_health
  \/ worker_get_server_info

InitWorker == Start /\ call \in KaggleWorkers

SpecWorker == InitWorker /\ [][NextWorker]_vars

\* --------------------------------------------- the fingerprint function
\* a 32-bit word is kept as its two 16-bit halves <<high, low>>, so that no
\* intermediate value leaves the integers TLC computes with
W16 == 65536

RECURSIVE Pow2(_)
Pow2(n) == IF n = 0 THEN 1 ELSE 2 * Pow2(n - 1)

\* bitwise exclusive or, and, complement of 16-bit values and of words
RECURSIVE Xor16(_, _)
Xor16(a, b) ==
  IF a = 0 THEN b ELSE IF b = 0 THEN a
  ELSE 2 * Xor16(a \div 2, b \div 2) + ((a + b) % 2)

RECURSIVE And16(_, _)
And16(a, b) ==
  IF a = 0 \/ b = 0 THEN 0
  ELSE 2 * And16(a \div 2, b \div 2) + ((a % 2) * (b % 2))

Xor(u, v) == <<Xor16(u[1], v[1]), Xor16(u[2], v[2])>>

And(u, v) == <<And16(u[1], v[1]), And16(u[2], v[2])>>

Not(u) == <<W16 - 1 - u[1], W16 - 1 - u[2]>>

\* addition modulo 2^32
Add(u, v) ==
  LET lo == u[2] + v[2]
      hi == u[1] + v[1] + (lo \div W16)
  IN <<hi % W16, lo % W16>>

\* rotation and shift to the right
RotR16(u, n) ==
  IF n = 0 THEN u
  ELSE LET p == Pow2(n)
           q == Pow2(16 - n)
       IN <<(u[1] \div p) + (u[2] % p) * q, (u[2] \div p) + (u[1] % p) * q>>

RotR(u, n) == IF n >= 16 THEN RotR16(<<u[2], u[1]>>, n - 16) ELSE RotR16(u, n)

ShR(u, n) ==
  LET p == Pow2(n)
      q == Pow2(16 - n)
  IN <<u[1] \div p, (u[2] \div p) + (u[1] % p) * q>>

\* the round constants and the initial hash value of SHA-256 (FIPS 180-4)
K == <<
  <<17034, 12184>>, <<28983, 17553>>, <<46528, 64463>>, <<59829, 56229>>,
  <<14678, 49755>>, <<23025, 4593>>, <<37439, 33444>>, <<43804, 24277>>,
  <<55303, 43672>>, <<4739, 23297>>, <<9265, 34238>>, <<21772, 32195>>,
  <<29374, 23924>>, <<32990, 45566>>, <<39900, 1703>>, <<49563, 61812>>,
  <<58523, 27073>>, <<61374, 18310>>, <<4033, 40390>>, <<9228, 41420>>,
  <<11753, 11375>>, <<19060, 33962>>, <<23728, 43484>>, <<30457, 35034>>,
  <<38974, 20818>>, <<43057, 50797>>, <<45059, 10184>>, <<48985, 32711>>,
  <<50912, 3059>>, <<54695, 37191>>, <<1738, 25425>>, <<5161, 10599>>,
  <<10167, 2693>>, <<11803, 8504>>, <<19756, 28156>>, <<21304, 3347>>,
  <<25866, 29524>>, <<30314, 2747>>, <<33218, 51502>>, <<37490, 11397>>,
  <<41663, 59553>>, <<43034, 26187>>, <<49739, 35696>>, <<51052, 20899>>,
  <<53650, 59417>>, <<54937, 1572>>, <<62478, 13701>>, <<4202, 41072>>,
  <<6564, 49430>>, <<7735, 27656>>, <<10056, 30540>>, <<13488, 48309>>,
  <<14620, 3251>>, <<20184, 43594>>, <<23452, 51791>>, <<26670, 28659>>,
  <<29839, 33518>>, <<30885, 25455>>, <<33992, 30740>>, <<36039, 520>>,
  <<37054, 65530>>, <<42064, 27883>>, <<48889, 41975>>, <<50801, 30962>> >>

H0 == <<
  <<27145, 58983>>, <<47975, 44677>>, <<15470, 62322>>, <<42319, 62778>>,
  <<20750, 21119>>, <<39685, 26764>>, <<8067, 55723>>, <<23520, 52505>> >>

Ch(e, f, g) == Xor(And(e, f), And(Not(e), g))

Maj(a, b, c) == Xor(Xor(And(a, b), And(a, c)), And(b, c))

BigSigma0(a) == Xor(Xor(RotR(a, 2), RotR(a, 13)), RotR(a, 22))

BigSigma1(e) == Xor(Xor(RotR(e, 6), RotR(e, 11)), RotR(e, 25))

SmallSigma0(u) == Xor(Xor(RotR(u, 7), RotR(u, 18)), ShR(u, 3))

SmallSigma1(u) == Xor(Xor(RotR(u, 17), RotR(u, 19)), ShR(u, 10))

\* padding: 0x80, zeros up to 56 modulo 64, the bit length in 8 bytes
RECURSIVE Zeros(_)
Zeros(n) == IF n = 0 THEN <<>> ELSE <<0>> \o Zeros(n - 1)

RECURSIVE BigEndian(_, _)
BigEndian(v, n) == IF n = 0 THEN <<>> ELSE Append(BigEndian(v \div 256, n - 1), v % 256)

Pad(bytes) ==
  LET l == Len(bytes)
      z == (55 - l) % 64
  IN bytes \o <<128>> \o Zeros(z) \o BigEndian(8 * l, 8)

\* the j-th block of 64 bytes as 16 words
Block(padded, j) ==
  [i \in 1..16 |->
     LET o == 64 * (j - 1) + 4 * (i - 1)
     IN <<padded[o + 1] * 256 + padded[o + 2], padded[o + 3] * 256 + padded[o + 4]>>]

\* the message schedule of a block
RECURSIVE Schedule(_)
Schedule(w) ==
  IF Len(w) = 64 THEN w
  ELSE LET t == Len(w) + 1
       IN Schedule(Append(w, Add(Add(SmallSigma1(w[t - 2]), w[t - 7]),
                                 Add(SmallSigma0(w[t - 15]), w[t - 16]))))

\* the 64 rounds on the working variables s = <<a, b, c, d, e, f, g, h>>
RECURSIVE Rounds(_, _, _)
Rounds(s, w, t) ==
  IF Len(s) # 8 \/ t > 64 THEN s
  ELSE LET t1 == Add(Add(Add(s[8], BigSigma1(s[5])), Add(Ch(s[5], s[6], s[7]), K[t])), w[t])
           t2 == Add(BigSigma0(s[1]), Maj(s[1], s[2], s[3]))
       IN Rounds(<<Add(t1, t2), s[1], s[2], s[3], Add(s[4], t1), s[5], s[6], s[7]>>, w, t + 1)

Compress(h, block) ==
  LET s == Rounds(h, Schedule(block), 1)
  IN [i \in 1..8 |-> Add(h[i], s[i])]

RECURSIVE Blocks(_, _, _)
Blocks(h, padded, j) ==
  IF 64 * (j - 1) >= Len(padded) THEN h
  ELSE Blocks(Compress(h, Block(padded, j)), padded, j + 1)

\* hashlib.sha256(bytes): the digest as 8 words
sha256(bytes) == Blocks(H0, Pad(bytes), 1)

\* .hexdigest(): 64 lower-case hexadecimal characters
HexDigits == <<"0","1","2","3","4","5","6","7","8","9","a","b","c","d","e","f">>

Hex16(v) == <<HexDigits[(v \div 4096) + 1], HexDigits[((v \div 256) % 16) + 1],
              HexDigits[((v \div 16) % 16) + 1], HexDigits[(v % 16) + 1]>>

RECURSIVE hexdigest(_)
hexdigest(h) ==
  IF h = <<>> THEN <<>>
  ELSE Hex16(Head(h)[1]) \o Hex16(Head(h)[2]) \o hexdigest(Tail(h))

\* the byte strings of the tests (b"ATCGATCGATCG", b"ATCGATCGATCX" and the
\* two-sequence FASTA text), the two contents b"ACGT" and b"TTGA", and the
\* empty file
HashCorpus ==
  { <<>>,
    <<65, 67, 71, 84>>,
    <<84, 84, 71, 65>>,
    <<65, 84, 67, 71, 65, 84, 67, 71, 65, 84, 67, 71>>,
    <<65, 84, 67, 71, 65, 84, 67, 71, 65, 84, 67, 88>>,
    <<62, 115, 101, 113, 49, 10, 65, 84, 67, 71, 65, 84, 67, 71, 65, 84, 67,
      71, 10, 62, 115, 101, 113, 50, 10, 71, 67, 84, 65, 71, 67, 84, 65, 71,
      67, 84, 65, 10>> }

\* the digests of these byte strings, computed once
CorpusDigests == [b \in HashCorpus |-> hexdigest(sha256(b))]

\* hashlib.sha256(file_bytes).hexdigest()
hashlib_sha256_hexdigest(bytes) ==
  IF bytes \in HashCorpus THEN CorpusDigests[bytes] ELSE hexdigest(sha256(bytes))

\* a fingerprint of the first bytes of the file only
compute_file_hash_of_prefix(bytes) ==
  hashlib_sha256_hexdigest(IF Len(bytes) > 8 THEN SubSeq(bytes, 1, 8) ELSE bytes)

\* compute_file_hash of main_cached.py, of main_new.py and of TaxaformerDB
compute_file_hash_cached(bytes) == hashlib_sha256_hexdigest(bytes)
compute_file_hash_new(bytes) == hashlib_sha256_hexdigest(bytes)
TaxaformerDB_compute_file_hash(bytes) == hashlib_sha256_hexdigest(bytes)

Implementations == {"main_cached", "main_new", "TaxaformerDB"}

\* one call of compute_file_hash of one of the implementations; the call
\* before it is kept for comparison
hash_file ==
  /\ call.name \in {"none", "compute_file_hash"}
  /\ \E impl \in Implementations, b \in HashCorpus :
       call' = [name |-> "compute_file_hash", done |-> TRUE,
                impl |-> impl, file_bytes |-> b,
                out |-> CASE impl = "main_cached" -> compute_file_hash_cached(b)
                          [] impl = "main_new" -> compute_file_hash_new(b)
                          [] OTHER -> TaxaformerDB_compute_file_hash(b),
                before |-> IF call.name = "none" THEN <<>>
                           ELSE <<[impl |-> call.impl,
                                   file_bytes |-> call.file_bytes,
                                   out |-> call.out]>>]
  /\ ReadFrame
  /\ UNCHANGED faults

\* (the deployment plays no part: one is fixed)
InitHash == Init /\ backend = "new"

SpecHash == InitHash /\ [][hash_file]_vars

\* ------------------------------------------- the validation block alone
\* uploads offered to the validation block: files with and without an
\* extension, in either case, and a file without a name
ValidationNames ==
  { [stem |-> st, ext |-> e] :
      st \in {"s1", "reads.v2"},
      e \in {".fasta", ".fa", ".fna", ".fastq", ".fq", ".txt",
             ".FASTA", ".Fa", ".FNA", ".FASTQ", ".Fq", ".TXT",
             ".pdf", ".PDF", ".gz", ".csv", ""} }
  \cup {NoName, [stem |-> ".fasta", ext |-> ""]}

\* main_cached.py:113-124 and main_new.py:136-147 on one upload
validate_file ==
  /\ call.name = "validate"
  /\ ~call.done
  /\ call' = [call EXCEPT !.done = TRUE,
                          !.out = Validate(call.filename,
                                           IF backend = "cached"
                                           THEN allowed_extensions_cached
                                           ELSE allowed_extensions_new)]
  /\ UNCHANGED <<backend, USE_DATABASE, jobs, faults, nextId, submitted, calls, temp,
                 pc, file_bytes, filename, job_id, result_data, dbfail, conflict,
                 concur, seen, computed, last>>

InitValidate ==
  /\ Start
  /\ call \in {[name |-> "validate", done |-> FALSE, filename |-> fn, out |-> 0] :
                 fn \in ValidationNames}

SpecValidate == InitValidate /\ [][validate_file]_vars

\* one deployment at a time
NextCached ==
  \/ \E r \in Reqs : analyze_lookup(r)
  \/ \E r \in Reqs : analyze_create(r)
  \/ \E r \in Reqs : analyze_process(r)
  \/ \E r \in Reqs : analyze_update(r)
  \/ \E r \in Reqs : analyze_fail(r)

NextNew ==
  \/ \E r \in Reqs : analyse_lookup(r)
  \/ \E r \in Reqs : analyse_process(r)
  \/ \E r \in Reqs : analyse_save(r)

InitCached == Init /\ backend = "cached"
InitNew == Init /\ backend = "new"

SpecCached == InitCached /\ [][NextCached]_vars
SpecNew == InitNew /\ [][NextNew]_vars

\* main_cached.py with its read-only endpoints
NextRead ==
  \/ \E r \in Reqs : analyze_lookup(r)
  \/ \E r \in Reqs : analyze_create(r)
  \/ \E r \in Reqs : analyze_process(r)
  \/ \E r \in Reqs : analyze_update(r)
  \/ \E r \in Reqs : analyze_fail(r)
  \/ list_jobs
  \/ get_job
  \/ get_composition

SpecRead == InitCached /\ [][NextRead]_vars

\* ... started with USE_DATABASE=false, or with a store that TaxaformerDB()
\* could not reach (lines 22-34)
InitDisabled == InitCached /\ ~USE_DATABASE

SpecDisabled == InitDisabled /\ [][NextRead]_vars

\* the read-only endpoints alone, over the tables that submissions of the
\* two contents can have left: a Job per content in either order of
\* creation, each processing, complete or failed
JobRow(id, b, st) ==
  [create_job_data(id, compute_file_hash(b), [stem |-> "s1", ext |-> ".fasta"],
                   st, NoDoc)
     EXCEPT !.result = IF st = "complete" THEN AnalysisDoc(b, id) ELSE NoDoc,
            !.completed_at = (st # "processing")]

ListedJobs ==
  {<<>>}
  \cup { <<JobRow(1, b, st)>> :
            b \in Contents, st \in {"processing", "complete", "failed"} }
  \cup { <<JobRow(1, p[1], st), JobRow(2, p[2], su)>> :
            p \in {q \in Contents \X Contents : q[1] # q[2]},
            st \in {"processing", "complete", "failed"},
            su \in {"processing", "complete", "failed"} }

NextList ==
  \/ list_jobs
  \/ get_job
  \/ get_composition

InitList == StartWith(ListedJobs) /\ backend = "cached" /\ call = NoCall

SpecList == InitList /\ [][NextList]_vars

\* --------------------------------------- TaxaformerDB.store_analysis
\* result documents handed to store_analysis: with both of the keys
\* "sequences" and "metadata", with one of them, and {}
StoredResults(b) ==
  { AnalysisDoc(b, 1),
    [AnalysisDoc(b, 1) EXCEPT !.metadata = {}],
    [EmptyDoc EXCEPT !.body = "summary", !.of = b],
    [EmptyDoc EXCEPT !.body = "summary", !.of = b, !.metadata = {"sampleName"}],
    EmptyDoc }

\* '"sequences" in result_json' and '"metadata" in result_json'
has_sequences(result_json) == result_json.body = "analysis"
has_metadata(result_json) == result_json.metadata # {}

\* a call of store_analysis(file_hash, filename, result_json) with the
\* default status: where it is (create, sequences, samples, returned,
\* raised), its local job_id, the jobs for which it has written rows of the
\* tables sequences and samples, and what it returned
StoreCall(b, d) ==
  [name |-> "store_analysis", done |-> FALSE, at |-> "create",
   file_hash |-> compute_file_hash(b), filename |-> [stem |-> "s1", ext |-> ".fasta"],
   result_json |-> d, status |-> "complete", job_id |-> NoJob,
   sequences |-> {}, samples |-> {}, out |-> NoJob]

StoreCalls == UNION { {StoreCall(b, d) : d \in StoredResults(b)} : b \in Contents }

\* a supplementary insert whose exception is not caught
store_rows_raises(written, j, fault) ==
  [raised |-> fault, rows |-> IF fault THEN written ELSE written \cup {j}]

\* _store_sequences and _store_sample_metadata: the insert inside
\* try / 'except Exception as e: print(...)', nothing is raised
store_rows(written, j, fault) ==
  [raised |-> FALSE, rows |-> IF fault THEN written ELSE written \cup {j}]

StoreFrame ==
  UNCHANGED <<backend, USE_DATABASE, submitted, calls, temp, pc, file_bytes,
              filename, job_id, result_data, dbfail, conflict, concur, seen,
              computed, last>>

\* lines 120-121: job_id = self.create_job(...); an exception of the insert
\* (the store fails, or the unique index on file_hash rejects the row) is
\* re-raised by create_job and by store_analysis
store_analysis_create ==
  /\ call.name = "store_analysis"
  /\ call.at = "create"
  /\ \E fault \in BOOLEAN :
       IF fault \/ UniqueViolation(jobs, call.file_hash)
       THEN /\ call' = [call EXCEPT !.at = "raised", !.done = TRUE]
            /\ IF fault THEN StoreFailure ELSE UNCHANGED faults
            /\ UNCHANGED <<jobs, nextId>>
       ELSE /\ jobs' = create_job(jobs, nextId, call.file_hash, call.filename,
                                  call.status, call.result_json)
            /\ nextId' = nextId + 1
            /\ call' = [call EXCEPT !.at = "sequences", !.job_id = nextId]
            /\ UNCHANGED faults
  /\ StoreFrame

\* lines 123-125: store the sequences if the result has them
store_analysis_sequences ==
  /\ call.name = "store_analysis"
  /\ call.at = "sequences"
  /\ \E fault \in BOOLEAN :
       LET stored == store_rows(call.sequences, call.job_id, fault) IN
       /\ fault => has_sequences(call.result_json)
       /\ IF fault THEN StoreFailure ELSE UNCHANGED faults
       /\ call' = IF ~has_sequences(call.result_json)
                  THEN [call EXCEPT !.at = "samples"]
                  ELSE IF stored.raised
                  THEN [call EXCEPT !.at = "raised", !.done = TRUE]
                  ELSE [call EXCEPT !.at = "samples", !.sequences = stored.rows]
  /\ UNCHANGED <<jobs, nextId>>
  /\ StoreFrame

\* lines 127-131: store the sample metadata if the result has it, and
\* return the job_id
store_analysis_samples ==
  /\ call.name = "store_analysis"
  /\ call.at = "samples"
  /\ \E fault \in BOOLEAN :
       LET stored == store_rows(call.samples, call.job_id, fault) IN
       /\ fault => has_metadata(call.result_json)
       /\ IF fault THEN StoreFailure ELSE UNCHANGED faults
       /\ call' = IF ~has_metadata(call.result_json)
                  THEN [call EXCEPT !.at = "returned", !.done = TRUE,
                                    !.out = call.job_id]
                  ELSE IF stored.raised
                  THEN [call EXCEPT !.at = "raised", !.done = TRUE]
                  ELSE [call EXCEPT !.at = "returned", !.done = TRUE,
                                    !.samples = stored.rows, !.out = call.job_id]
  /\ UNCHANGED <<jobs, nextId>>
  /\ StoreFrame

NextStore ==
  \/ store_analysis_create
  \/ store_analysis_sequences
  \/ store_analysis_samples

InitStore ==
  /\ StartWith(ListedJobs)
  /\ backend = "cached"
  /\ USE_DATABASE
  /\ call \in StoreCalls

SpecStore == InitStore /\ [][NextStore]_vars

\* ------------------------------- the two variants on the same submissions
\* what the compute call does for a submission that reaches it
ComputeOutcomes == {"raises", "returns", "returns_empty"}

\* the document of compute call n on content b with that outcome
ComputedDoc(b, n, outcome) ==
  IF outcome = "returns" THEN AnalysisDoc(b, n) ELSE EmptyDoc

\* the 'metadata' form fields a caller can send: those of Metadata and a
\* field that opens some thousand brackets ("[[[[" stands for it)
MetadataFields == Metadata \cup {"[[[["}

\* json.loads(metadata) of line 108 under 'if metadata:': the class of the
\* exception it raises, "" when it returns or is not called.  Text that is
\* not JSON raises JSONDecodeError; brackets nested deeper than the
\* interpreter's recursion limit raise RecursionError.
json_loads_raises(md) ==
  CASE md = "{bad" -> "JSONDecodeError"
    [] md = "[[[[" -> "RecursionError"
    [] OTHER -> ""

\* 'except json.JSONDecodeError' of line 110: what leaves the inner try
except_JSONDecodeError(raised) ==
  IF raised = "JSONDecodeError" THEN "" ELSE raised

\* a variant after a submission: its table and what the caller received
Served(tbl, response) == [jobs |-> tbl, resp |-> response]

\* main_cached.py analyze_endpoint from request to response, with the store
\* working and no other submission in flight
analyze_endpoint(tbl, id, b, fn, md, outcome) ==
  LET file_hash == compute_file_hash(b)
      cached_job == CHOOSE row \in get_job_by_hash(tbl, file_hash) : TRUE
      created == ~UniqueViolation(tbl, file_hash)
      inserted == IF created
                  THEN create_job(tbl, id, file_hash, fn, "processing", NoDoc)
                  ELSE tbl
      j == IF created THEN id ELSE NoJob
      doc == AddMetadata(ComputedDoc(b, id, outcome), parsed_metadata(md))
  IN
  IF except_JSONDecodeError(json_loads_raises(md)) # ""
  THEN Served(tbl, ErrorBody(json_loads_raises(md)))
  ELSE IF Validate(fn, allowed_extensions_cached) # 0
  THEN Served(tbl, HTTPException(400))
  ELSE IF cache_branch(cached_job) = "hit"
  THEN Served(tbl, Response("success", TRUE, cached_job.job_id, cached_job.result))
  ELSE IF cache_branch(cached_job) = "processing"
  THEN Served(tbl, Response("processing", FALSE, cached_job.job_id, NoDoc))
  ELSE IF outcome = "raises"
  THEN Served(IF j # NoJob
              THEN update_eq_job_id(inserted, j,
                     [status |-> "failed", completed_at |-> TRUE])
              ELSE inserted,
              ErrorBody("pipeline_error"))
  ELSE Served(IF j # NoJob
              THEN update_eq_job_id(inserted, j,
                     [status |-> "complete", result |-> doc, completed_at |-> TRUE])
              ELSE inserted,
              Response("success", FALSE, j, doc))

\* main_new.py analyse_endpoint from request to response, likewise
analyse_endpoint(tbl, id, b, fn, outcome) ==
  LET file_hash == compute_file_hash(b)
      existing == CHOOSE row \in check_existing_result(tbl, file_hash) : TRUE
      doc == ComputedDoc(b, id, outcome)
  IN
  IF Validate(fn, allowed_extensions_new) # 0
  THEN Served(tbl, HTTPException(400))
  ELSE IF existing # NoRow
  THEN Served(tbl, Response("success", TRUE, existing.job_id,
                            result_json_column(existing.result)))
  ELSE IF outcome = "raises"
  THEN Served(tbl, HTTPException(500))
  ELSE Served(save_result_to_db(tbl, id, file_hash, fn, doc),
              Response("success", FALSE, id, doc))

\* names of uploads: those of Filenames and a second name that both
\* variants accept
UploadNames == Filenames \cup {[stem |-> "s2", ext |-> ".fa"]}

\* the two deployments, each with its own empty table, before a submission
SideBySide ==
  [name |-> "side_by_side", done |-> FALSE,
   file_bytes |-> NoBytes, filename |-> NoName, metadata |-> "", outcome |-> "",
   cached |-> Served(<<>>, NoResp), new |-> Served(<<>>, NoResp)]

\* the same upload is submitted to both (main_new.py has no metadata field)
\* and the compute call, where a variant makes it, has the same outcome
submit_both ==
  /\ call.name = "side_by_side"
  /\ submitted < MaxSubmit
  /\ submitted' = submitted + 1
  /\ nextId' = nextId + 1
  /\ \E b \in Contents, fn \in UploadNames, md \in MetadataFields,
        outcome \in ComputeOutcomes :
       call' = [call EXCEPT
                  !.done = TRUE,
                  !.file_bytes = b, !.filename = fn, !.metadata = md,
                  !.outcome = outcome,
                  !.cached = analyze_endpoint(call.cached.jobs, nextId, b, fn, md, outcome),
                  !.new = analyse_endpoint(call.new.jobs, nextId, b, fn, outcome)]
  /\ UNCHANGED <<backend, USE_DATABASE, jobs, faults, calls, temp, pc, file_bytes,
                 filename, job_id, result_data, dbfail, conflict, concur, seen,
                 computed, last>>

InitBoth ==
  /\ StartWith({<<>>})
  /\ USE_DATABASE
  /\ call = SideBySide

SpecBoth == InitBoth /\ [][submit_both]_vars

\* =====================================================================
\* Properties
\* =====================================================================
Complete == {"complete", "completed"}

\* a result document with content (neither absent nor {})
NonEmpty(doc) == doc # NoDoc /\ doc # EmptyDoc

\* the result document a row holds, whichever column type stores it
RowResult(row) == IF backend = "new" THEN result_json_column(row.result) ELSE row.result

\* the rows of a table that belong to the content request r uploaded
RowsOf(tbl, b) == {i \in 1..Len(tbl) : tbl[i].file_hash = compute_file_hash(b)}

\* request r takes its first step (validation, hash, lookup) in this step
Submits(r) == Free(r) /\ submitted' = submitted + 1

\* request r returns to its caller in this step
Returns(r) == (Submits(r) \/ pc[r] # "idle") /\ pc'[r] = "idle"

\* the content and the lookup outcome of request r after its first step
BytesOf(r) == IF pc'[r] = "idle" THEN last'.bytes ELSE file_bytes'[r]
SeenBy(r) == IF pc'[r] = "idle" THEN last'.seen ELSE seen'[r]

\* ... its file was accepted and the lookup was answered by the store
LooksUp(r) == Submits(r) /\ BytesOf(r) # NoBytes /\ USE_DATABASE /\ SeenBy(r) # "error"

\* C1: in every reachable state of the job store at most one Job row exists
\* per file_hash value, also after a re-submission of content whose previous
\* job is failed and after concurrent submissions.
C1_OneJobPerHash ==
  \A i, j \in 1..Len(jobs) : jobs[i].file_hash = jobs[j].file_hash => i = j

\* a re-submission of content whose job is failed has tried to create a job
C1_Witness ==
  \E r \in Reqs : conflict[r] /\ seen[r] = "failed" /\ pc[r] = "process"

\* C2: two concurrent submissions of the same content, whose fingerprint was
\* absent from the store, invoke the compute call once in total and both
\* callers are about to observe the same job_id.
C2_ComputedOnce ==
  \A r1, r2 \in Reqs :
    ( /\ r1 # r2 /\ faults = 0 /\ USE_DATABASE
      /\ file_bytes[r1] # NoBytes /\ file_bytes[r1] = file_bytes[r2]
      /\ concur[r1] /\ concur[r2]
      /\ seen[r1] = "absent" /\ seen[r2] = "absent" )
    => /\ ~(computed[r1] /\ computed[r2])
       /\ (pc[r1] = "update" /\ pc[r2] = "update" => job_id[r1] = job_id[r2])

\* C3: a submission whose job creation failed because a job for the same
\* fingerprint already exists does not invoke the compute call.
C3_ConflictRecovered ==
  \A r \in Reqs : conflict[r] => ~computed[r]

\* C4: once a submission (that overlapped no other of the same content) has
\* returned successfully with cached:false while the store is enabled and
\* working, the next submission of the same bytes returns cached:true with the
\* same job_id and the same result.
C4_SecondSubmissionCached ==
  [][\A r \in Reqs :
       ( /\ USE_DATABASE /\ faults' = 0
         /\ last.resp.status = "success" /\ ~last.resp.cached /\ ~last.concur
         /\ Submits(r) /\ BytesOf(r) = last.bytes )
       => /\ Returns(r)
          /\ last'.resp.status = "success" /\ last'.resp.cached
          /\ last'.resp.job_id = last.resp.job_id
          /\ last'.resp.data = last.resp.data]_vars

\* C5: for every Job in the store, its result is non-empty if and only if its
\* status is complete.
C5_ResultIffComplete ==
  \A i \in 1..Len(jobs) :
    NonEmpty(RowResult(jobs[i])) <=> jobs[i].status \in Complete

\* C6: a Job row changes only by processing -> complete or processing ->
\* failed; a row that is complete or failed is never modified again.
C6_OnlyProcessingRowsChange ==
  [][\A i \in 1..Len(jobs) :
       jobs'[i] # jobs[i]
         => /\ jobs[i].status = "processing"
            /\ jobs'[i].status \in Complete \cup {"failed"}]_vars

\* C7: a submission whose fingerprint maps to a complete Job returns
\* cached:true with that Job's job_id and stored result, calls no compute
\* worker, creates no Job and modifies no Job.
C7_CompleteIsCacheHit ==
  [][\A r \in Reqs : \A i \in 1..Len(jobs) :
       ( /\ LooksUp(r)
         /\ i \in RowsOf(jobs, BytesOf(r))
         /\ jobs[i].status \in Complete )
       => /\ Returns(r)
          /\ last'.resp = Response("success", TRUE, jobs[i].job_id, RowResult(jobs[i]))
          /\ <<jobs, calls, nextId>>' = <<jobs, calls, nextId>>]_vars

\* a submission has been answered from a complete Job
C7_Witness ==
  /\ last.seen \in Complete /\ last.bytes # NoBytes
  /\ last.resp.status = "success" /\ last.resp.cached

\* C8: a submission whose fingerprint maps to a processing Job returns a
\* processing indicator carrying that Job's job_id, creates no Job and calls
\* no compute worker.
C8_ProcessingIsReported ==
  [][\A r \in Reqs : \A i \in 1..Len(jobs) :
       ( /\ LooksUp(r)
         /\ i \in RowsOf(jobs, BytesOf(r))
         /\ jobs[i].status = "processing" )
       => /\ Returns(r)
          /\ last'.resp = Response("processing", FALSE, jobs[i].job_id, NoDoc)
          /\ <<jobs, calls, nextId>>' = <<jobs, calls, nextId>>]_vars

\* a submission has been answered with the processing indicator
C8_Witness ==
  /\ last.seen = "processing" /\ last.bytes # NoBytes
  /\ last.resp.status = "processing" /\ last.resp.job_id # NoJob

\* C9: a submission whose fingerprint maps to a failed Job is a cache miss:
\* the lookup answers nothing, the handler goes on to the job creation and
\* from there to the compute call (which only a failure to stage the upload
\* prevents).
C9_FailedIsRetried ==
  [][\A r \in Reqs :
       /\ \A i \in 1..Len(jobs) :
            ( /\ LooksUp(r)
              /\ i \in RowsOf(jobs, BytesOf(r))
              /\ jobs[i].status = "failed" )
            => pc'[r] = "create" /\ last' = last
       /\ (seen[r] = "failed" /\ pc[r] = "create" /\ pc'[r] # "create")
            => pc'[r] = "process" /\ last' = last
       /\ (seen[r] = "failed" /\ pc[r] = "process" /\ pc'[r] # "process")
            => \/ computed'[r] /\ calls' = calls + 1
               \/ Returns(r) /\ last'.resp.status = "error" /\ calls' = calls]_vars

\* a submission that found a failed Job has invoked the compute call
C9_Witness ==
  \E r \in Reqs : seen[r] = "failed" /\ computed[r]

\* C10: on a cache miss where the compute call succeeds and the store is
\* available, the caller receives cached:false with a job_id, and the Job of
\* that job_id is complete, holds the returned result and a completion time
\* (stated for submissions that overlapped no other of the same content).
C10_MissStoresAndReturns ==
  [][\A r \in Reqs :
       ( /\ USE_DATABASE /\ faults' = 0
         /\ Returns(r) /\ ~concur[r]
         /\ last'.resp.status = "success" /\ ~last'.resp.cached )
       => \E i \in RowsOf(jobs', file_bytes[r]) :
            /\ jobs'[i].job_id = last'.resp.job_id
            /\ jobs'[i].status \in Complete
            /\ RowResult(jobs'[i]) = last'.resp.data
            /\ jobs'[i].completed_at]_vars

\* the compute call of request r has raised and r returns in this step
ComputeFailed(r) ==
  \/ pc[r] = "fail"
  \/ pc[r] = "process" /\ calls' = calls + 1 /\ pc'[r] = "idle"

\* C11: on a cache miss where the compute call fails (the store working),
\* the caller receives a failure and the Job of that fingerprint is failed
\* when the submission returns.
C11_ComputeFailureMarksFailed ==
  [][\A r \in Reqs :
       (USE_DATABASE /\ faults' = 0 /\ ComputeFailed(r) /\ Returns(r))
       => /\ last'.resp.status \in {"error", "http_error"}
          /\ \E i \in RowsOf(jobs', file_bytes[r]) : jobs'[i].status = "failed"]_vars

\* C12: once the submission that created a Job has returned, on any exit
\* path, that Job is complete or failed and not processing.
C12_CreatedJobIsResolved ==
  [][\A r \in Reqs : \A i \in 1..Len(jobs') :
       (backend = "cached" /\ Returns(r) /\ job_id[r] # NoJob
          /\ jobs'[i].job_id = job_id[r])
       => jobs'[i].status \in Complete \cup {"failed"}]_vars

\* the filename request r was submitted with, after its first step
FilenameOf(r) == IF pc'[r] = "idle" THEN last'.filename ELSE filename'[r]

\* the allow-list of the deployed variant
Allowed == IF backend = "cached" THEN allowed_extensions_cached
           ELSE allowed_extensions_new

SpecAllowList == {".fasta", ".fa", ".fna", ".fastq", ".fq", ".txt"}

\* C14: in each variant a named upload passes the validation block if and
\* only if its lower-cased extension is one of .fasta .fa .fna .fastq .fq .txt.
C14_AllowListIsTheSpecified ==
  (call.name = "validate" /\ call.done)
  => (call.out = 0 <=> Lower(splitext(call.filename)) \in SpecAllowList)

\* C15: when a submission has returned, on whatever exit path, the
\* temporary file staged for its compute call does not exist any more.
C15_StagedFileRemoved ==
  /\ ~last.temp
  /\ \A r \in temp : pc[r] # "idle"

\* a store operation of request r has failed, in an earlier step or in this one
StoreFailed(r) == dbfail[r] \/ faults' # faults

\* C16: a submission whose compute call succeeded answers success, not
\* cached, with the result of that compute call, also when its lookup, its
\* job creation or its completion update (its save) failed.
C16_StoreFailureIsNotFatal ==
  [][\A r \in Reqs :
       (Returns(r) /\ pc[r] \in {"update", "save"} /\ StoreFailed(r))
       => /\ last'.resp.status = "success"
          /\ ~last'.resp.cached
          /\ last'.resp.data = result_data[r]
          /\ last'.resp.data.of \in {file_bytes[r], NoBytes}]_vars

\* the only submission so far found no Job, lost one store operation after
\* that (the creation or the write of the result) and has been answered
C16_Witness ==
  /\ submitted = 1
  /\ faults = 1
  /\ last.seen = "absent"
  /\ last.resp.status = "success"
  /\ ~last.resp.cached
  /\ last.resp.data.body = "analysis"

ReadEndpoints == {"list_jobs", "get_job", "get_composition"}

\* C17: a read-only request (the job list, one job, a visualization) during
\* which the store failed is answered with 503 service unavailable, never
\* with an empty list, a 404 or an empty aggregation.
C17_ReadFailureIsUnavailable ==
  (call.name \in ReadEndpoints /\ call.fault) => call.http = 503

C19_ResponseHasAllFields ==
  /\ last.resp.status = "success" => last.resp.job_id # NoJob
  /\ last.resp.status \in {"none", "success", "processing", "error", "http_error"}

\* C20: a submission is answered with a result, a 'processing' notice or an
\* error; the data of a success response is the result of this submission's
\* own compute call or the result stored in the complete Job of the
\* submitted content's hash, and in both cases an analysis of that content.
C20_ResultBelongsToContent ==
  [][\A r \in Reqs :
       Returns(r) =>
         /\ last'.resp.status \in {"success", "processing", "error", "http_error"}
         /\ last'.resp.status = "success" =>
              /\ last'.bytes # NoBytes
              /\ last'.resp.data.body = "analysis"
                 => last'.resp.data.of = last'.bytes
              /\ IF last'.resp.cached
                 THEN \E i \in RowsOf(jobs, last'.bytes) :
                        /\ jobs[i].status \in Complete
                        /\ jobs[i].job_id = last'.resp.job_id
                        /\ RowResult(jobs[i]) = last'.resp.data
                 ELSE /\ computed[r]
                      /\ last'.resp.data = result_data[r]]_vars

\* a cache hit while the table also holds the Job of another content
C20_Witness ==
  /\ Len(jobs) > 1
  /\ last.resp.status = "success"
  /\ last.resp.cached
  /\ last.resp.data.body = "analysis"
  /\ last.resp.data.of = last.bytes

\* C21: on a worker without a URL every process_file call returns, sends no
\* request, and returns the same document as the process_file call before
\* it, whatever the file name and whatever the network would have done.
C21_MockIsFixed ==
  [][(call'.name = "process_file" /\ call'.ngrok_url = "")
     => /\ call'.out.kind = "returned"
        /\ call'.requests = 0
        /\ call.name = "process_file" => call'.out = call.out]_vars

\* C22: for an answer with a 2xx status whose body is an envelope with
\* status success, process_file returns the envelope's data, and never the
\* envelope.
C22_ReturnsEnvelopeData ==
  (/\ call.name = "process_file"
   /\ call.ngrok_url # ""
   /\ call.net.kind = "response"
   /\ call.net.status_code \in 200..299
   /\ call.net.body.json
   /\ call.net.body.status = "success")
  => /\ call.out.kind = "returned"
     /\ call.out.value # call.net.body
     /\ call.net.body.has_data => call.out.value = call.net.body.data

\* C23: an answer with a status outside 2xx makes process_file raise the
\* server error with that status code and the body's detail when it has
\* one; a 2xx answer whose envelope is not a success envelope makes it
\* raise the error with the server's message; no value is returned.
C23_RemoteErrorsRaise ==
  (/\ call.name = "process_file"
   /\ call.ngrok_url # ""
   /\ call.net.kind = "response")
  => /\ call.net.status_code \notin 200..299
        => /\ call.out.kind = "raised"
           /\ call.out.text = "Kaggle server error"
           /\ call.out.code = call.net.status_code
           /\ call.net.body.json => call.out.extra = call.net.body.detail
     /\ (/\ call.net.status_code \in 200..299
         /\ call.net.body.json
         /\ call.net.body.status # "success")
        => /\ call.out.kind = "raised"
           /\ call.out.text = "Kaggle server returned error"
           /\ call.net.body.message # "" => call.out.extra = call.net.body.message

\* the failure kind a caller reads from the detail of an error answer
FailureKind(detail) ==
  CASE detail.text = "Analysis timeout" -> "RemoteTimeout"
    [] detail.text = "Cannot connect to Kaggle server" -> "RemoteUnavailable"
    [] detail.text \in {"Kaggle server error", "Kaggle server returned error"}
         -> "RemoteAnalysisError"
    [] OTHER -> "other"

\* why a request to the remote worker failed, if it did
FailureCause(net) ==
  IF net.kind \in Timeout THEN "RemoteTimeout"
  ELSE IF net.kind = "ConnectionError" THEN "RemoteUnavailable"
  ELSE IF \/ net.status_code \notin 200..299
          \/ net.body.json /\ net.body.status # "success"
  THEN "RemoteAnalysisError"
  ELSE "none"

\* C24: a timeout, a failed connection and an error answer of the remote
\* worker each make process_file raise, and the answer the caller of the
\* submission gets for that exception tells the three kinds apart: it
\* names the kind of the failure that happened and no other.
C24_FailureKindsDistinct ==
  (/\ call.name = "process_file"
   /\ call.ngrok_url # ""
   /\ FailureCause(call.net) # "none")
  => /\ call.out.kind = "raised"
     /\ analyse_except(call.out).http = 500
     /\ FailureKind(analyse_except(call.out).detail) = FailureCause(call.net)

C24_Witness ==
  /\ call.name = "process_file"
  /\ call.ngrok_url # ""
  /\ call.net.kind = "ConnectTimeout"
  /\ call.out.kind = "raised"
  /\ FailureKind(str(call.out)) = "RemoteTimeout"

\* C25: check_server_health and get_server_info always return; the health
\* probe says true only on a configured worker whose GET was answered with
\* success, and false on a worker without URL and whenever the request
\* raised; neither probe changes the worker's URL or timeout or the jobs.
C25_ProbesNeverRaise ==
  [][call'.name \in {"check_server_health", "get_server_info"}
     => /\ call'.out.kind = "returned"
        /\ call'.name = "check_server_health"
           => /\ call'.out.value.healthy
                 => /\ call'.ngrok_url # ""
                    /\ call'.net.kind = "response"
                    /\ call'.net.status_code \in 200..299
              /\ (call'.ngrok_url = "" \/ call'.net.kind # "response")
                 => ~call'.out.value.healthy
        /\ call'.ngrok_url = call.ngrok_url
        /\ call'.timeout = call.timeout
        /\ jobs' = jobs]_vars

C25_Witness ==
  /\ call.name = "check_server_health"
  /\ call.ngrok_url # ""
  /\ call.net.kind = "ConnectionError"
  /\ call.out = Return([healthy |-> FALSE])

\* C26: a lookup by hash that the store answers finds the Job of that hash
\* when the table has one (the handler sees that Job's status) and finds
\* nothing when the table has none; in both cases the table is the same
\* after the lookup and no job id has been used.
C26_LookupFindsAndKeeps ==
  [][\A r \in Reqs :
       (backend = "cached" /\ LooksUp(r))
       => /\ jobs' = jobs
          /\ nextId' = nextId
          /\ SeenBy(r) = "absent" <=> RowsOf(jobs, BytesOf(r)) = {}
          /\ \A i \in RowsOf(jobs, BytesOf(r)) : SeenBy(r) = jobs[i].status]_vars

\* a lookup has missed while the table holds the Job of another content
C26_Witness ==
  \E r \in Reqs :
    /\ backend = "cached"
    /\ pc[r] = "create"
    /\ seen[r] = "absent"
    /\ jobs # <<>>
    /\ RowsOf(jobs, file_bytes[r]) = {}

\* C27: a create_job that the store answers is rejected when the table has
\* a Job of that hash already, and then leaves the table as it is and gives
\* no job id; for a hash without a Job it appends exactly one Job of that
\* hash, with status processing and a fresh job id, which it returns.
C27_CreateInsertsOrConflicts ==
  [][\A r \in Reqs :
       (/\ backend = "cached" /\ USE_DATABASE
        /\ pc[r] = "create" /\ pc'[r] = "process"
        /\ faults' = faults)
       => IF RowsOf(jobs, file_bytes[r]) # {}
          THEN /\ conflict'[r]
               /\ jobs' = jobs
               /\ job_id'[r] = NoJob
          ELSE /\ ~conflict'[r]
               /\ Len(jobs') = Len(jobs) + 1
               /\ SubSeq(jobs', 1, Len(jobs)) = jobs
               /\ jobs'[Len(jobs')].file_hash = compute_file_hash(file_bytes[r])
               /\ jobs'[Len(jobs')].status = "processing"
               /\ jobs'[Len(jobs')].job_id = job_id'[r]
               /\ job_id'[r] # NoJob
               /\ \A i \in 1..Len(jobs) : jobs[i].job_id # job_id'[r]]_vars

\* a create_job has been rejected: the table already had the Job
C27_Witness ==
  \E r \in Reqs :
    /\ pc[r] = "process"
    /\ conflict[r]
    /\ job_id[r] = NoJob
    /\ RowsOf(jobs, file_bytes[r]) # {}

\* C28: when the update that marks a Job failed itself fails, the caller of
\* the submission still gets the error of the compute call, not the error
\* of the store.
C28_BookkeepingErrorSwallowed ==
  [][\A r \in Reqs :
       (Returns(r) /\ pc[r] = "fail" /\ faults' # faults)
       => /\ last'.resp.status = "error"
          /\ last'.resp.message = "pipeline_error"
          /\ jobs' = jobs]_vars

\* a submission has been answered with the compute error although marking
\* its Job failed did not work: the Job is still processing
C28_Witness ==
  /\ faults > 0
  /\ last.resp.status = "error"
  /\ last.resp.message = "pipeline_error"
  /\ \E i \in RowsOf(jobs, last.bytes) : jobs[i].status = "processing"
  /\ \A q \in Reqs : pc[q] = "idle"

\* a step of a read-only endpoint: no submission starts or moves
ReadStep == submitted' = submitted /\ pc' = pc

\* C29: a job list that the store delivers has at most 'limit' entries, the
\* most recently created Jobs of the table, the newest first, and no entry
\* has the result payload.
C29_ListIsRecentFirst ==
  [][(/\ ReadStep
      /\ call'.name = "list_jobs"
      /\ call'.http = 200
      /\ ~call'.fault)
     => LET rows == call'.rows IN
        /\ Len(rows) <= call'.limit
        /\ Len(rows) = Len(jobs) \/ Len(rows) = call'.limit
        /\ \A k \in 1..Len(rows) :
             /\ \E i \in 1..Len(jobs) :
                  /\ jobs[i].job_id = rows[k].job_id
                  /\ jobs[i].status = rows[k].status
                  /\ i = rows[k].created_at
             /\ "result" \notin DOMAIN rows[k]
             /\ \A m \in 1..Len(rows) :
                  k < m => rows[k].created_at > rows[m].created_at
             /\ \A i \in 1..Len(jobs) :
                  (\A m \in 1..Len(rows) : rows[m].job_id # jobs[i].job_id)
                  => i < rows[k].created_at]_vars

\* a list cut by its limit
C29_Witness ==
  /\ call.name = "list_jobs"
  /\ call.http = 200
  /\ call.limit = 1
  /\ Len(call.rows) = 1
  /\ Len(jobs) > 1
  /\ call.rows[1].job_id = jobs[Len(jobs)].job_id

\* C30: every fingerprint is 64 hexadecimal characters, and of two calls,
\* by whichever of the three implementations, the fingerprints are equal
\* exactly when the bytes are equal.
C30_FingerprintIsInjective ==
  call.name = "compute_file_hash"
  => /\ Len(call.out) = 64
     /\ \A i \in 1..Len(call.out) : \E d \in 1..Len(HexDigits) : call.out[i] = HexDigits[d]
     /\ \A k \in 1..Len(call.before) :
          call.before[k].file_bytes = call.file_bytes
          <=> call.before[k].out = call.out

\* the same bytes have been hashed by two implementations, with one result
C30_Witness ==
  /\ call.name = "compute_file_hash"
  /\ call.before # <<>>
  /\ call.before[1].impl # call.impl
  /\ call.before[1].file_bytes = call.file_bytes
  /\ call.file_bytes # <<>>
  /\ call.before[1].out = call.out

\* C31: store_analysis inserts the Job row first and returns the job_id of
\* that row; rows of sequences and samples are written only for a Job that
\* exists; once the Job row is in, the call does not fail and does not
\* change the Job table, also when a supplementary write fails.
C31_JobRowFirstRestBestEffort ==
  [][call.name = "store_analysis" =>
       /\ (call.at = "create" /\ call'.at # "raised")
          => /\ Len(jobs') = Len(jobs) + 1
             /\ SubSeq(jobs', 1, Len(jobs)) = jobs
             /\ jobs'[Len(jobs')].job_id = call'.job_id
             /\ jobs'[Len(jobs')].file_hash = call.file_hash
             /\ \A i \in 1..Len(jobs) : jobs[i].job_id # call'.job_id
             /\ call'.sequences = {} /\ call'.samples = {}
       /\ call.at # "create"
          => /\ jobs' = jobs
             /\ call'.at # "raised"
             /\ \E i \in 1..Len(jobs) : jobs[i].job_id = call.job_id
             /\ call'.sequences \cup call'.samples \subseteq {call.job_id}
       /\ call'.at = "returned" => call'.out = call.job_id]_vars

\* a call has returned the job_id of its Job although the write of its
\* sequences failed
C31_Witness ==
  /\ call.name = "store_analysis"
  /\ call.at = "returned"
  /\ has_sequences(call.result_json)
  /\ call.sequences = {}
  /\ call.samples = {call.job_id}
  /\ \E i \in 1..Len(jobs) : jobs[i].job_id = call.out

\* the compute call of request r starts in this step
StartsCompute(r) == pc[r] = "process" /\ pc'[r] # "process" /\ calls' = calls + 1

\* C32: when the compute call of a submission starts (the store enabled and
\* no store operation of the submission failed), a processing Job of the
\* submitted content's hash is in the table; and a Job is completed or
\* marked failed only by a submission whose compute call has resolved.
C32_ProcessingJobBeforeCompute ==
  [][\A r \in Reqs :
       /\ (StartsCompute(r) /\ USE_DATABASE /\ ~dbfail[r])
          => \E i \in RowsOf(jobs, file_bytes[r]) : jobs[i].status = "processing"
       /\ (pc[r] # "idle" /\ pc'[r] = "idle" /\ jobs' # jobs)
          => (pc[r] \in {"update", "fail", "save"} /\ calls > 0)]_vars

\* what kind of answer a response is
ResponseKind(response) ==
  IF response.status = "http_error" THEN "error" ELSE response.status

\* the status of the Job of content b in a table (complete and completed are
\* the same status under the names of the two variants)
StatusOf(tbl, b) ==
  IF RowsOf(tbl, b) = {} THEN "absent"
  ELSE LET row == tbl[CHOOSE i \in RowsOf(tbl, b) : TRUE]
       IN IF row.status \in Complete THEN "complete" ELSE row.status

\* C33: after the same submissions with the same compute outcomes the two
\* variants have given answers of the same kind with the same cached flag,
\* and their tables hold, for each content, a Job in the same status.
C33_VariantsAgree ==
  call.name = "side_by_side" =>
    /\ ResponseKind(call.cached.resp) = ResponseKind(call.new.resp)
    /\ call.cached.resp.cached = call.new.resp.cached
    /\ \A b \in Contents :
         StatusOf(call.cached.jobs, b) = StatusOf(call.new.jobs, b)

\* the job_ids present in a table
JobIds(tbl) == {tbl[i].job_id : i \in 1..Len(tbl)}

\* C34: no step deletes a Job: the job_ids present in the table only grow,
\* and a Job keeps its job_id and its file_hash.
C34_JobsAreNeverDeleted ==
  [][/\ JobIds(jobs) \subseteq JobIds(jobs')
     /\ Len(jobs') >= Len(jobs)
     /\ \A i \in 1..Len(jobs) :
          /\ jobs'[i].job_id = jobs[i].job_id
          /\ jobs'[i].file_hash = jobs[i].file_hash]_vars

\* a submission whose compute call failed has marked its Job failed and
\* returned, in a table that holds another Job as well
C34_Witness ==
  /\ Len(jobs) > 1
  /\ last.seen = "absent"
  /\ last.resp.status = "error"
  /\ \E i \in RowsOf(jobs, last.bytes) : jobs[i].status = "failed"

\* C35: with the store enabled and no store operation failed, the job_id of
\* every success response is the job_id of a Job in the table whose
\* file_hash is the hash of the submitted content, also for submissions of
\* the same content that overlapped.
C35_ReturnedJobIdExists ==
  [][\A r \in Reqs :
       ( /\ USE_DATABASE /\ faults' = 0
         /\ Returns(r)
         /\ last'.resp.status = "success"
         /\ last'.resp.job_id # NoJob )
       => \E i \in RowsOf(jobs', last'.bytes) :
            jobs'[i].job_id = last'.resp.job_id]_vars

\* C36: once a re-submission of content whose Job was failed has been
\* computed and answered with success (the store enabled and working, no
\* other submission of that content in flight), the next submission of the
\* same content is a cache hit and makes no compute call.
C36_RetriedContentIsCached ==
  [][\A r \in Reqs :
       ( /\ USE_DATABASE /\ faults' = 0
         /\ last.seen = "failed" /\ ~last.concur
         /\ last.resp.status = "success" /\ ~last.resp.cached
         /\ last.resp.data.body = "analysis"
         /\ Submits(r) /\ BytesOf(r) = last.bytes
         /\ InFlight(last.bytes) = {} )
       => /\ Returns(r)
          /\ last'.resp.status = "success" /\ last'.resp.cached
          /\ calls' = calls]_vars

\* request r takes a step of its handler in this step
Acts(r) == Submits(r) \/ (pc[r] # "idle" /\ pc'[r] # pc[r])

\* C37: a step of a submission changes no Job but the one that carries the
\* job_id of the submission's own create; a submission without such a
\* job_id changes no Job.
C37_UpdatesOnlyOwnJob ==
  [][\A r \in Reqs : \A i \in 1..Len(jobs) :
       (Acts(r) /\ jobs'[i] # jobs[i])
       => (job_id[r] # NoJob /\ jobs[i].job_id = job_id[r])]_vars

\* the job_id of the Job of content b in a table (NoJob when it has none)
JobOf(tbl, b) ==
  IF RowsOf(tbl, b) = {} THEN NoJob
  ELSE tbl[CHOOSE i \in RowsOf(tbl, b) : TRUE].job_id

\* C38: for an upload with a supported name, whether the answer is cached
\* depends only on the Job that the table holds for the bytes: it is cached,
\* with that Job's job_id, exactly when that Job is complete, whatever the
\* filename and the metadata field; and a metadata field that is not JSON
\* leaves the answer what it is without a metadata field.
C38_BytesAloneDecide ==
  [][(call'.name = "side_by_side" /\ call'.done) =>
       LET b == call'.file_bytes
           fn == call'.filename
           md == call'.metadata
       IN
       /\ Validate(fn, allowed_extensions_cached) = 0
          => /\ call'.cached.resp.cached
                  <=> StatusOf(call.cached.jobs, b) = "complete"
             /\ call'.cached.resp.cached
                  => call'.cached.resp.job_id = JobOf(call.cached.jobs, b)
             /\ md \in {"{bad", "[[[["}
                  => call'.cached = analyze_endpoint(call.cached.jobs, nextId, b, fn,
                                                     "", call'.outcome)
       /\ Validate(fn, allowed_extensions_new) = 0
          => /\ call'.new.resp.cached
                  <=> StatusOf(call.new.jobs, b) = "complete"
             /\ call'.new.resp.cached
                  => call'.new.resp.job_id = JobOf(call.new.jobs, b)]_vars

====
